---- MODULE Spec2Model ----
(***************************************************************************)
(* Model of the background orchestration loop (main-loop.ts,               *)
(* startMainLoop) and of the 1fichier link resolver stub (fichier.ts,      *)
(* FichierApi.getDownloadUrl).                                             *)
(*                                                                         *)
(* startMainLoop is an async function: a call returns a promise and runs   *)
(*   while (true) {                                                        *)
(*     await Promise.allSettled([t1(), t2(), t3(), t4(), t5()]);           *)
(*     await sleep(1500);                                                  *)
(*   }                                                                     *)
(* The array literal is evaluated left to right without suspension: each   *)
(* element is a call of a Task, which runs the Task up to its first        *)
(* suspension and yields a promise.  The loop then suspends on the         *)
(* allSettled promise, and afterwards on the timer of sleep(1500).         *)
(*                                                                         *)
(* Every variable of a loop is a function of the call of startMainLoop it  *)
(* belongs to (Calls); the function keeps no state outside its own frame.  *)
(***************************************************************************)
EXTENDS Integers, Sequences, FiniteSets, TLC

\* ------------------------------------------------------------------ bounds
MaxCycles   == 2      \* Cycles a loop may start (Cycle 0 .. MaxCycles-1)
MaxCalls    == 2      \* calls of startMainLoop the model distinguishes
Quantum     == 750    \* granularity of the discrete clock, in ms
MaxTaskTime == 750    \* the clock stops advancing for a Cycle whose Tasks
                      \* have been running this long (Tasks may still settle)
MaxOverhead == 750    \* latest a due timer callback runs after its deadline
MaxUrlLen   == 1      \* longest url handed to getDownloadUrl

\* ------------------------------------------------------- program constants
PacingDelay == 1500   \* sleep(1500)

\* The declared order with two elements exchanged.
TaskSetSwapped ==
  << "watchProcesses",
     "watchAchievements",
     "watchDownloads",
     "getSeedStatus",
     "checkForUpdatePeriodically" >>

\* The array literal handed to Promise.allSettled, in source order.
TaskSet ==
  << "watchProcesses",
     "watchDownloads",
     "watchAchievements",
     "getSeedStatus",
     "checkForUpdatePeriodically" >>

Slots     == 1..Len(TaskSet)
TaskNames == { TaskSet[k] : k \in Slots }
Calls     == 1..MaxCalls
Main      == 1        \* the call of startMainLoop made at process start

VARIABLES
  pc,            \* pc[c]: "idle" (not called), "launch" (evaluating the array
                 \*   literal), "allSettled" (suspended on Promise.allSettled),
                 \*   "sleep" (suspended on sleep(1500)), "done" (frame left)
  next,          \* next[c]: slot of the array literal evaluated next
  cycle,         \* cycle[c]: index of the current iteration of while (true)
  mainLoop,      \* mainLoop[c]: state of the promise startMainLoop returned
  promise,       \* promise[c][k]: state of the promise the latest call of
                 \*   TaskSet[k] by loop c returned ("none" before any call)
  reason,        \* reason[c][k]: how that promise came to be rejected
  hung,          \* hung[c][k]: that invocation never settles
  invoked,       \* invoked[c][t]: calls of Task t made by loop c so far
  launchLog,     \* launchLog[c]: Tasks called in the current Cycle, in order
  suspensions,   \* suspensions[c]: awaits executed by loop c so far
  now,           \* the clock, in ms
  deadline,      \* deadline[c]: when the timer of the running sleep is due
                 \*   (0 while the loop has no timer)
  cycleStart,    \* cycleStart[c]: time of the first launch of this Cycle
  lastSettle,    \* lastSettle[c]: time of the latest settlement of a Task
                 \*   launched by loop c (0 before any)
  resolved       \* the latest call of FichierApi.getDownloadUrl

loopVars == << pc, next, cycle, mainLoop, promise, reason, hung, invoked,
               launchLog, suspensions, deadline, cycleStart, lastSettle >>
vars == << pc, next, cycle, mainLoop, promise, reason, hung, invoked,
           launchLog, suspensions, now, deadline, cycleStart, lastSettle,
           resolved >>

\* ---------------------------------------------------------------- promises
PromiseStates == {"none", "pending", "fulfilled", "rejected"}
Settled(p)    == p \in {"fulfilled", "rejected"}

\* How an async function's promise settles: a return fulfils it; a rejected
\* awaited promise and a throw in the body both reject it.  The exception of
\* a throw never reaches the caller's frame.
Completions == {"return", "reject", "throw"}
asyncSettle(how) ==
  IF how = "return" THEN "fulfilled" ELSE "rejected"

asyncReason(how) ==
  IF how = "return" THEN "none" ELSE how

\* Promise.all(ps): rejects as soon as one input is rejected.
promiseAll(ps) ==
  IF \E k \in DOMAIN ps : ps[k] = "rejected" THEN "rejected"
  ELSE IF \A k \in DOMAIN ps : ps[k] = "fulfilled" THEN "fulfilled"
  ELSE "pending"

\* Promise.race-like: settles, fulfilled, as soon as one input has settled.
promiseAnySettled(ps) ==
  IF \E k \in DOMAIN ps : Settled(ps[k]) THEN "fulfilled" ELSE "pending"

\* Promise.allSettled(ps): fulfilled once every input has settled, never
\* rejected.
allSettled(ps) ==
  IF \A k \in DOMAIN ps : Settled(ps[k]) THEN "fulfilled" ELSE "pending"

\* sleep(ms) called at time t: a promise resolved by a timer due at t + ms.
sleep(ms, t) == t + ms

\* The single thread is inside the synchronous part of an iteration: jobs
\* and timer callbacks run to completion, one at a time.
Busy == \E c \in Calls : pc[c] = "launch"

\* ------------------------------------------------------------ the resolver
Chars == {"a", "/"}
Urls  == UNION { [1..n -> Chars] : n \in 0..MaxUrlLen }

\* static async getDownloadUrl(url) { return url; }
getDownloadUrlTail(url) == IF url = << >> THEN url ELSE Tail(url)
getDownloadUrl(url) == url

NoCall == [state |-> "none", url |-> << >>, value |-> << >>]

\* A call of FichierApi.getDownloadUrl(url), made by a job of its own: the
\* async function returns at once, so the promise it hands back is already
\* fulfilled with its value.
GetDownloadUrl ==
  \E url \in Urls :
    /\ ~ Busy
    /\ resolved' = [state |-> asyncSettle("return"), url |-> url,
                    value |-> getDownloadUrl(url)]
    /\ UNCHANGED << loopVars, now >>

\* ----------------------------------------------------------------- the loop
Init ==
  /\ pc             = [c \in Calls |-> IF c = Main THEN "launch" ELSE "idle"]
  /\ next           = [c \in Calls |-> 1]
  /\ cycle          = [c \in Calls |-> 0]
  /\ mainLoop       = [c \in Calls |-> IF c = Main THEN "pending" ELSE "none"]
  /\ promise        = [c \in Calls |-> [k \in Slots |-> "none"]]
  /\ reason         = [c \in Calls |-> [k \in Slots |-> "none"]]
  /\ hung           = [c \in Calls |-> [k \in Slots |-> FALSE]]
  /\ invoked        = [c \in Calls |-> [t \in TaskNames |-> 0]]
  /\ launchLog      = [c \in Calls |-> << >>]
  /\ suspensions    = [c \in Calls |-> 0]
  /\ now            = 0
  /\ deadline       = [c \in Calls |-> 0]
  /\ cycleStart     = [c \in Calls |-> 0]
  /\ lastSettle     = [c \in Calls |-> 0]
  /\ resolved       = NoCall

\* A startMainLoop that would refuse to start while another call runs.
StartMainLoopGuarded(c) ==
  /\ ~ Busy
  /\ pc[c] = "idle"
  /\ \A d \in Calls : pc[d] = "idle"
  /\ pc'         = [pc EXCEPT ![c] = "launch"]
  /\ mainLoop'   = [mainLoop EXCEPT ![c] = "pending"]
  /\ cycleStart' = [cycleStart EXCEPT ![c] = now]
  /\ UNCHANGED << next, cycle, promise, reason, hung, invoked, launchLog,
                  suspensions, now, deadline, lastSettle, resolved >>

\* A second call of startMainLoop: a new frame, entered at while (true).
StartMainLoop(c) ==
  /\ ~ Busy
  /\ pc[c] = "idle"
  /\ pc'         = [pc EXCEPT ![c] = "launch"]
  /\ mainLoop'   = [mainLoop EXCEPT ![c] = "pending"]
  /\ cycleStart' = [cycleStart EXCEPT ![c] = now]
  /\ UNCHANGED << next, cycle, promise, reason, hung, invoked, launchLog,
                  suspensions, now, deadline, lastSettle, resolved >>

\* What the call of a Task yields when it returns to the array literal:
\* the Task ran to its first suspension ("suspend": the promise is pending,
\* and the invocation may be one that never settles), or it ran to its end
\* without suspending, by a return or a throw (the promise is already
\* settled).
LaunchOutcomes ==
  { [how |-> "suspend", hangs |-> h] : h \in BOOLEAN } \cup
  { [how |-> h, hangs |-> FALSE] : h \in {"return", "throw"} }

\* The state the loop moves to when the element in slot k has been evaluated:
\* after the last one Promise.allSettled is called and awaited.
afterLaunch(k) == IF k = Len(TaskSet) THEN "allSettled" ELSE "launch"

\* The promise a Task hands back for a completion: every Task is an async
\* operation, so a throw in it rejects its promise like a rejection does.
taskPromise(how) == asyncSettle(how)

\* The call of TaskSet[k] by loop c, yielding o, and the step past slot k.
Call(c, k, o) ==
  LET t == TaskSet[k] IN
  /\ promise' = [promise EXCEPT ![c][k] =
                   IF o.how = "suspend" THEN "pending" ELSE taskPromise(o.how)]
  /\ reason'  = [reason EXCEPT ![c][k] =
                   IF o.how = "suspend" THEN "none" ELSE asyncReason(o.how)]
  /\ hung'    = [hung EXCEPT ![c][k] = o.hangs]
  /\ invoked' = [invoked EXCEPT ![c][t] = @ + 1]
  /\ launchLog' = [launchLog EXCEPT ![c] = Append(@, t)]
  /\ lastSettle' = [lastSettle EXCEPT ![c] =
                      IF o.how = "suspend" THEN @ ELSE now]
  /\ next' = [next EXCEPT ![c] = k + 1]
  /\ pc'   = [pc EXCEPT ![c] = afterLaunch(k)]
  /\ suspensions' = [suspensions EXCEPT ![c] =
                       IF afterLaunch(k) = "allSettled" THEN @ + 1 ELSE @]
  /\ UNCHANGED << cycle, mainLoop, now, deadline, cycleStart, resolved >>

\* A loop that drops a Task once it has failed: a slot whose previous
\* invocation was rejected is passed over.
LaunchUnlessFailed(c) ==
  /\ pc[c] = "launch"
  /\ IF promise[c][next[c]] = "rejected"
     THEN /\ next' = [next EXCEPT ![c] = @ + 1]
          /\ pc'   = [pc EXCEPT ![c] = afterLaunch(next[c])]
          /\ suspensions' = [suspensions EXCEPT ![c] =
                IF afterLaunch(next[c]) = "allSettled" THEN @ + 1 ELSE @]
          /\ UNCHANGED << cycle, mainLoop, promise, reason, hung, invoked,
                          launchLog, now, deadline, cycleStart, lastSettle, resolved >>
     ELSE \E o \in LaunchOutcomes : Call(c, next[c], o)

\* Evaluation of one element of the array literal: the call of the Task in
\* the next slot.
Launch(c) ==
  /\ pc[c] = "launch"
  /\ \E o \in LaunchOutcomes : Call(c, next[c], o)

\* A pending invocation settles: its Task returns, rejects or throws.  A
\* Task goes on from a suspension in a job of the event loop, which runs no
\* job while the array literal of a loop is being evaluated.
Settle(c, k, how) ==
  /\ ~ Busy
  /\ promise[c][k] = "pending"
  /\ ~ hung[c][k]
  /\ promise' = [promise EXCEPT ![c][k] = taskPromise(how)]
  /\ reason'  = [reason EXCEPT ![c][k] = asyncReason(how)]
  /\ lastSettle' = [lastSettle EXCEPT ![c] = now]
  /\ UNCHANGED << pc, next, cycle, mainLoop, hung, invoked, launchLog,
                  suspensions, now, deadline, cycleStart,
                  resolved >>

\* The same await over Promise.all, which a rejection short-circuits.
awaitedAll(c) == promiseAll(promise[c])

\* The same await over a combinator that one settlement satisfies.
awaitedAny(c) == promiseAnySettled(promise[c])

\* The promise awaited on line 10.
awaited(c) == allSettled(promise[c])

\* A loop that does not pace: the timer is due at once.
pacingNone(t) == t

\* A loop that paces by a tenth of the delay.
pacingShort(t) == sleep(150, t)

\* The timer set on line 18 at time t.
pacingDeadline(t) == sleep(PacingDelay, t)

\* The await of line 10 resumes: on a fulfilled promise the loop goes on to
\* sleep(1500); a rejected one would throw in the frame, which has no
\* handler, and so reject the promise startMainLoop returned.
AwaitAllSettled(c) ==
  /\ ~ Busy
  /\ pc[c] = "allSettled"
  /\ awaited(c) # "pending"
  /\ IF awaited(c) = "fulfilled"
     THEN /\ pc' = [pc EXCEPT ![c] = "sleep"]
          /\ deadline' = [deadline EXCEPT ![c] = pacingDeadline(now)]
          /\ suspensions' = [suspensions EXCEPT ![c] = @ + 1]
          /\ UNCHANGED mainLoop
     ELSE /\ pc' = [pc EXCEPT ![c] = "done"]
          /\ mainLoop' = [mainLoop EXCEPT ![c] = "rejected"]
          /\ UNCHANGED << deadline, suspensions >>
  /\ UNCHANGED << next, cycle, promise, reason, hung, invoked, launchLog,
                  now, cycleStart, lastSettle, resolved >>

\* The timer of sleep(1500) fires and the await of line 18 resumes: the
\* next iteration of while (true) begins.
TimerFire(c) ==
  /\ ~ Busy
  /\ pc[c] = "sleep"
  /\ now >= deadline[c]
  /\ cycle[c] + 1 < MaxCycles
  /\ pc'    = [pc EXCEPT ![c] = "launch"]
  /\ next'  = [next EXCEPT ![c] = 1]
  /\ cycle' = [cycle EXCEPT ![c] = @ + 1]
  /\ launchLog'  = [launchLog EXCEPT ![c] = << >>]
  /\ cycleStart' = [cycleStart EXCEPT ![c] = now]
  /\ deadline'   = [deadline EXCEPT ![c] = 0]
  /\ UNCHANGED << mainLoop, promise, reason, hung, invoked, suspensions,
                  now, lastSettle, resolved >>

\* Time passes while a loop is suspended; none passes while the array
\* literal is evaluated.
CanWait(c) ==
  \/ pc[c] = "allSettled" /\ now - cycleStart[c] < MaxTaskTime
  \/ pc[c] = "sleep" /\ now < deadline[c] + MaxOverhead

Tick ==
  /\ ~ Busy
  /\ \E c \in Calls : CanWait(c)
  /\ now' = now + Quantum
  /\ UNCHANGED << loopVars, resolved >>

Next ==
  \/ \E c \in Calls : Launch(c)
  \/ \E c \in Calls, k \in Slots, how \in Completions : Settle(c, k, how)
  \/ \E c \in Calls : AwaitAllSettled(c)
  \/ \E c \in Calls : TimerFire(c)
  \/ Tick

Spec == Init /\ [][Next]_vars

\* The event loop runs every continuation that is ready and every timer that
\* is due, the clock advances, and an invocation that is not one of those
\* that never settle (hung) does settle.
Fairness ==
  /\ \A c \in Calls : WF_vars(Launch(c))
  /\ \A c \in Calls : WF_vars(AwaitAllSettled(c))
  /\ \A c \in Calls : WF_vars(TimerFire(c))
  /\ \A c \in Calls, k \in Slots :
       WF_vars(\E how \in Completions : Settle(c, k, how))
  /\ WF_vars(Tick)

LiveSpec == Init /\ [][Next]_vars /\ Fairness

\* The loop together with callers of the resolver, which may call it at any
\* time.
NextResolver == Next \/ GetDownloadUrl

SpecResolver == Init /\ [][NextResolver]_vars

\* The loop called a second time while it runs.  The Tasks of this
\* specification neither fail nor hang, and only the first and the last
\* Task of the array ever suspend: the three between them return at once.
Second == 2

SlowSlots == {1, 5}

TasksSucceed ==
  /\ hung' = hung
  /\ reason' = reason
  /\ \A c \in Calls : \A k \in Slots \ SlowSlots : promise'[c][k] # "pending"

NextReentrant ==
  \/ StartMainLoop(Second) /\ TasksSucceed
  \/ Next /\ TasksSucceed

SpecReentrant == Init /\ [][NextReentrant]_vars

TypeOK ==
  /\ pc \in [Calls -> {"idle", "launch", "allSettled", "sleep", "done"}]
  /\ next \in [Calls -> 1..(Len(TaskSet) + 1)]
  /\ cycle \in [Calls -> 0..(MaxCycles - 1)]
  /\ mainLoop \in [Calls -> PromiseStates]
  /\ promise \in [Calls -> [Slots -> PromiseStates]]
  /\ reason \in [Calls -> [Slots -> {"none", "reject", "throw"}]]
  /\ hung \in [Calls -> [Slots -> BOOLEAN]]
  /\ resolved.state \in PromiseStates

\* ------------------------------------------------------------------ claims
Started(c)      == pc[c] # "idle"
Launched(c)     == 1..(next[c] - 1)      \* slots called in the current Cycle
RunningCycle(c) == pc[c] \in {"launch", "allSettled"}
AwaitingCycle(c) == pc[c] = "sleep"
DeclaredOrder ==
  << "watchProcesses", "watchDownloads", "watchAchievements",
     "getSeedStatus", "checkForUpdatePeriodically" >>

\* C1 - Fault isolation: when a Task launched in a Cycle has failed, the
\* Cycle is either still running (the loop is launching the remaining Tasks
\* or waiting for them), or it has ended with all five Tasks launched, each
\* exactly once, and each with exactly one outcome, fulfilled or rejected.
\* The loop is never left because of the failure.
FaultIsolation ==
  \A c \in Calls :
    (Started(c) /\ \E k \in Launched(c) : promise[c][k] = "rejected") =>
      \/ RunningCycle(c)
      \/ /\ AwaitingCycle(c)
         /\ Len(launchLog[c]) = 5
         /\ \A t \in TaskNames :
              Cardinality({i \in 1..Len(launchLog[c]) : launchLog[c][i] = t}) = 1
         /\ DOMAIN promise[c] = 1..5
         /\ \A k \in Slots : Settled(promise[c][k])

\* A Cycle that ended with failed and successful Tasks side by side.
FaultIsolationWitness ==
  /\ pc[Main] = "sleep"
  /\ promise[Main][2] = "rejected"
  /\ \A k \in Slots \ {2} : promise[Main][k] = "fulfilled"

\* C2 - No Cycle overlap: when a Cycle after the first is about to launch
\* its first Task, every Task of the Cycle before it has settled and the
\* time is at least the last of those settlements plus the pacing delay of
\* 1500 ms; and while the Cycle launches its Tasks, no invocation of the
\* previous Cycle is pending.
NoCycleOverlap ==
  \A c \in Calls :
    (pc[c] = "launch" /\ cycle[c] >= 1) =>
      /\ \A k \in Slots \ Launched(c) : Settled(promise[c][k])
      /\ next[c] = 1 => now >= lastSettle[c] + 1500

\* Cycle 1 is about to launch its first Task exactly one pacing delay
\* after the last Task of Cycle 0 settled, which it did late.
NoCycleOverlapWitness ==
  /\ cycle[Main] = 1
  /\ pc[Main] = "launch"
  /\ next[Main] = 1
  /\ lastSettle[Main] > 0
  /\ now = lastSettle[Main] + 1500

\* C3 - In every Cycle the Tasks are launched in the declared order, each
\* one exactly once, the whole Task Set before the loop suspends; and the
\* order of launch does not constrain settlement: any pending invocation
\* that is going to settle can settle next, whatever its slot.
LaunchOrder ==
  \A c \in Calls :
    /\ Len(launchLog[c]) <= 5
    /\ launchLog[c] = SubSeq(DeclaredOrder, 1, Len(launchLog[c]))
    /\ pc[c] \in {"allSettled", "sleep"} => launchLog[c] = DeclaredOrder
    /\ Started(c) => Len(launchLog[c]) = next[c] - 1
    /\ \A k \in Slots :
         (pc[c] = "allSettled" /\ promise[c][k] = "pending" /\ ~ hung[c][k]) =>
           /\ ENABLED Settle(c, k, "return")
           /\ ENABLED Settle(c, k, "reject")

\* The Task launched last has settled while the four before it are pending.
LaunchOrderWitness ==
  /\ pc[Main] = "allSettled"
  /\ cycle[Main] = 1
  /\ promise[Main][5] = "fulfilled"
  /\ \A k \in 1..4 : promise[Main][k] = "pending"

\* C4 - A failure skips nothing later: each Task has been invoked once in
\* every Cycle before the current one and once more if the current Cycle
\* has reached its slot, whatever the outcomes were; so after n completed
\* Cycles every Task has been invoked exactly n times.
InvokedEveryCycle ==
  \A c \in Calls : \A k \in Slots :
    /\ invoked[c][DeclaredOrder[k]] =
         cycle[c] + (IF k \in Launched(c) THEN 1 ELSE 0)
    /\ pc[c] = "sleep" => invoked[c][DeclaredOrder[k]] = cycle[c] + 1

\* Cycle 1 relaunches the Tasks after a Cycle 0 in which the last Task
\* threw: four are launched again and the fifth, still rejected, is next.
InvokedEveryCycleWitness ==
  /\ cycle[Main] = 1
  /\ pc[Main] = "launch"
  /\ next[Main] = 5
  /\ promise[Main][5] = "rejected"
  /\ reason[Main][5] = "throw"
  /\ \A k \in 1..4 : promise[Main][k] = "rejected"
  /\ invoked[Main]["watchProcesses"] = 2

\* C5 - startMainLoop never returns: the promise a call returned stays
\* pending and its frame is never left, whatever the Tasks' outcomes.
NeverReturns ==
  \A c \in Calls :
    Started(c) => mainLoop[c] = "pending" /\ pc[c] # "done"

\* The loop is in its second pacing delay after a Cycle in which every
\* Task failed.
NeverReturnsWitness ==
  /\ cycle[Main] = 1
  /\ pc[Main] = "sleep"
  /\ \A k \in Slots : promise[Main][k] = "rejected"
  /\ mainLoop[Main] = "pending"
\* C6 (as stated) - Unconditional liveness: whatever the Tasks do, the loop
\* eventually starts every Cycle the model allows.
UnconditionallyLive ==
  \A n \in 1..MaxCycles : <>(cycle[Main] + 1 >= n)

NoTaskHangs == \A c \in Calls, k \in Slots : ~ hung[c][k]

\* C6 (amended) - Liveness: if every launched Task settles, the number of
\* Cycles started eventually reaches every N the model allows.
LiveWhileTasksSettle ==
  ([]NoTaskHangs) => \A n \in 1..MaxCycles : <>(cycle[Main] + 1 >= n)

\* The last Cycle the model allows has started after Cycles whose Tasks
\* all settled, some of them by failing.
LiveWhileTasksSettleWitness ==
  /\ cycle[Main] + 1 = MaxCycles
  /\ pc[Main] = "sleep"
  /\ NoTaskHangs
  /\ promise[Main][1] = "rejected"
  /\ promise[Main][2] = "fulfilled"

\* An invocation of the current Cycle that never settles.
Stuck(c) ==
  \E k \in Launched(c) : promise[c][k] = "pending" /\ hung[c][k]

\* C7 - Starvation: once a Task launched in a Cycle is one that never
\* settles, the loop stays in that Cycle: the Cycle index never changes,
\* the pacing delay is never started, and once the loop waits for the
\* Cycle's Tasks no Task, the hung one or a sibling, is invoked again.
Starvation ==
  [][ \A c \in Calls :
        Stuck(c) =>
          /\ Stuck(c)'
          /\ cycle'[c] = cycle[c]
          /\ RunningCycle(c)'
          /\ deadline'[c] = deadline[c]
          /\ pc[c] = "allSettled" =>
               pc'[c] = "allSettled" /\ invoked'[c] = invoked[c] ]_vars

\* The loop waits in Cycle 1 on one hung Task after all its siblings have
\* settled and time has passed.
StarvationWitness ==
  /\ cycle[Main] = 1
  /\ pc[Main] = "allSettled"
  /\ promise[Main][3] = "pending" /\ hung[Main][3]
  /\ \A k \in Slots \ {3} : Settled(promise[Main][k])
  /\ now >= cycleStart[Main] + MaxTaskTime

\* C8 - Resolver identity law: every call of getDownloadUrl succeeds and
\* its value is the url it was given; a call changes nothing of the loop,
\* and no step of the loop calls the resolver.
ResolverIdentity ==
  /\ [](resolved.state # "none" =>
          resolved.state = "fulfilled" /\ resolved.value = resolved.url)
  /\ [][resolved' # resolved => (loopVars' = loopVars /\ now' = now)]_vars
  /\ [][loopVars' # loopVars => resolved' = resolved]_vars

\* The resolver has been called with a non-empty url while a Cycle runs.
ResolverIdentityWitness ==
  /\ resolved.state = "fulfilled"
  /\ resolved.url = << "/" >>
  /\ resolved.value = << "/" >>
  /\ pc[Main] = "allSettled"
  /\ promise[Main][1] = "pending"

\* C9 - A failure is absorbed whether the Task rejected or threw: its
\* promise is rejected, the promise of startMainLoop stays pending, the
\* Tasks declared after it are launched before the loop suspends, the
\* Cycle ends only with all five settled, and the loop can then go on.
FailureAbsorbed ==
  \A c \in Calls : \A k \in Slots :
    reason[c][k] \in {"reject", "throw"} =>
      /\ promise[c][k] = "rejected"
      /\ mainLoop[c] = "pending"
      /\ pc[c] \in {"launch", "allSettled", "sleep"}
      /\ pc[c] # "launch" => Len(launchLog[c]) = 5
      /\ pc[c] = "sleep" => \A j \in Slots : Settled(promise[c][j])
      /\ (~ Busy /\ pc[c] = "allSettled"
            /\ \A j \in Slots : Settled(promise[c][j]))
           => ENABLED AwaitAllSettled(c)
      /\ (~ Busy /\ pc[c] = "sleep" /\ now >= deadline[c]
            /\ cycle[c] + 1 < MaxCycles)
           => ENABLED TimerFire(c)

\* Cycle 1 begins after a Cycle 0 in which the first Task threw and the
\* second rejected.
FailureAbsorbedWitness ==
  /\ cycle[Main] = 1
  /\ pc[Main] = "launch"
  /\ next[Main] = 1
  /\ reason[Main][1] = "throw"
  /\ reason[Main][2] = "reject"
  /\ \A k \in 3..5 : promise[Main][k] = "fulfilled"

\* The awaits the loop has executed when it is where it is.
AwaitsAt(c) ==
  2 * cycle[c] + (IF pc[c] = "allSettled" THEN 1
                  ELSE IF pc[c] = "sleep" THEN 2 ELSE 0)

\* C10 - Two-state machine: the loop starts in RunningCycle of Cycle 0 with
\* no pacing delay before it; it is always in RunningCycle or
\* AwaitingCycle, and the two alternate; it enters AwaitingCycle only from
\* the wait for the Cycle's Tasks with all five settled, and leaves it only
\* into the next Cycle once the pacing delay has elapsed; it suspends only
\* at these two awaits, and no time passes while it launches.
TwoStateMachine ==
  /\ RunningCycle(Main) /\ cycle[Main] = 0 /\ suspensions[Main] = 0
  /\ [](\A c \in Calls :
          Started(c) =>
            /\ RunningCycle(c) \/ AwaitingCycle(c)
            /\ suspensions[c] = AwaitsAt(c))
  /\ [][ \A c \in Calls :
          /\ (RunningCycle(c) /\ ~ RunningCycle(c)') =>
               /\ AwaitingCycle(c)'
               /\ pc[c] = "allSettled"
               /\ \A k \in Slots : Settled(promise[c][k])
               /\ cycle'[c] = cycle[c]
          /\ (AwaitingCycle(c) /\ ~ AwaitingCycle(c)') =>
               /\ pc'[c] = "launch" /\ next'[c] = 1
               /\ cycle'[c] = cycle[c] + 1
               /\ now >= deadline[c]
               /\ now >= lastSettle[c] + 1500
          /\ pc[c] = "launch" =>
               /\ now' = now
               /\ pc'[c] = "launch" \/
                    (pc'[c] = "allSettled" /\ Len(launchLog'[c]) = 5) ]_vars

\* The loop is in its second pacing delay, after four awaits.
TwoStateMachineWitness ==
  /\ cycle[Main] = 1
  /\ AwaitingCycle(Main)
  /\ suspensions[Main] = 4
  /\ now < deadline[Main]

\* C11 - Pacing: a loop leaves RunningCycle by setting one timer due exactly
\* 1500 ms later, and while it sleeps the timer is due no earlier than the
\* last settlement of the Cycle plus 1500 ms; a new Cycle starts only from
\* that one pacing delay, whatever the outcomes were, so that with T the
\* time the slowest Task of Cycle k took to settle,
\* start(Cycle k+1) - start(Cycle k) >= T + 1500.
PacingGap ==
  /\ [](\A c \in Calls :
          pc[c] = "sleep" =>
            /\ lastSettle[c] >= cycleStart[c]
            /\ deadline[c] >= lastSettle[c] + 1500)
  /\ [][ \A c \in Calls :
          /\ (pc[c] # "sleep" /\ pc'[c] = "sleep") =>
               deadline'[c] = now + 1500
          /\ cycle'[c] # cycle[c] =>
               /\ cycle'[c] = cycle[c] + 1
               /\ pc[c] = "sleep"
               /\ suspensions[c] = 2 * (cycle[c] + 1)
               /\ cycleStart'[c] - cycleStart[c] >=
                    (lastSettle[c] - cycleStart[c]) + 1500 ]_vars

\* Cycle 1 starts exactly T + 1500 ms after Cycle 0, whose Tasks all
\* failed, the slowest after T = 750 ms.
PacingGapWitness ==
  /\ cycle[Main] = 1
  /\ pc[Main] = "launch"
  /\ next[Main] = 1
  /\ \A k \in Slots : promise[Main][k] = "rejected"
  /\ lastSettle[Main] = 750
  /\ cycleStart[Main] = 750 + 1500

\* The state a loop keeps in its own frame, and the times it set.
ctl(c) ==
  << pc[c], next[c], cycle[c], mainLoop[c], suspensions[c], deadline[c],
     cycleStart[c], launchLog[c], invoked[c] >>

\* The promise states that differ from ps only in the outcome tags of the
\* settled promises: every way to call the settled ones fulfilled or
\* rejected.
Relabellings(ps) ==
  LET settled == { k \in DOMAIN ps : Settled(ps[k]) } IN
  { [k \in DOMAIN ps |->
       IF k \in settled
       THEN (IF k \in F THEN "rejected" ELSE "fulfilled")
       ELSE ps[k]] : F \in SUBSET settled }

\* The frame a loop is in after its next step, told without any outcome:
\* from where it is, the time, and nothing else.
StepOf(c) ==
  IF pc[c] = "idle"
  THEN << "launch", next[c], cycle[c], "pending", suspensions[c],
          deadline[c], now, launchLog[c], invoked[c] >>
  ELSE IF pc[c] = "launch"
  THEN << (IF next[c] = 5 THEN "allSettled" ELSE "launch"), next[c] + 1,
          cycle[c], "pending",
          suspensions[c] + (IF next[c] = 5 THEN 1 ELSE 0), deadline[c],
          cycleStart[c], Append(launchLog[c], DeclaredOrder[next[c]]),
          [invoked[c] EXCEPT ![DeclaredOrder[next[c]]] = @ + 1] >>
  ELSE IF pc[c] = "allSettled"
  THEN << "sleep", next[c], cycle[c], "pending", suspensions[c] + 1,
          now + 1500, cycleStart[c], launchLog[c], invoked[c] >>
  ELSE << "launch", 1, cycle[c] + 1, "pending", suspensions[c], 0, now,
          << >>, invoked[c] >>

\* C12 - Outcomes are discarded: what the loop awaits is the same under
\* every relabelling of the outcome tags of the settled Tasks, and every
\* step of the loop takes its frame to a state fixed by the frame and the
\* time alone, taken only when all five Tasks have settled (from the wait)
\* or the timer is due (from the pacing delay).  Two runs whose Tasks
\* settle at the same points therefore go through the same frames,
\* whatever the tags, and no frame records an outcome.
OutcomeBlind ==
  /\ [](\A c \in Calls : \A q \in Relabellings(promise[c]) :
          allSettled(q) = awaited(c))
  /\ [][ \A c \in Calls :
          ctl(c)' # ctl(c) =>
            /\ ctl(c)' = StepOf(c)
            /\ pc[c] \in {"idle", "launch", "allSettled", "sleep"}
            /\ pc[c] = "allSettled" =>
                 \A k \in Slots : Settled(promise[c][k])
            /\ pc[c] = "sleep" => now >= deadline[c] ]_vars

\* The loop has reached its second pacing delay through Cycles whose Tasks
\* settled with mixed tags.
OutcomeBlindWitness ==
  /\ cycle[Main] = 1
  /\ pc[Main] = "sleep"
  /\ promise[Main] =
       << "rejected", "fulfilled", "rejected", "fulfilled", "rejected" >>
  /\ reason[Main][1] = "throw"
  /\ reason[Main][3] = "reject"

\* C13 - Conditional liveness: under the event loop's fairness, if no
\* launched Task hangs, every Cycle that starts runs to its pacing delay,
\* every pacing delay but the last the model allows ends in the next
\* Cycle, and every one of the five Tasks is eventually invoked once for
\* every Cycle the model allows.
EachTaskInvokedAgain ==
  ([]NoTaskHangs) =>
    /\ \A n \in 0..(MaxCycles - 1) :
         (cycle[Main] = n /\ RunningCycle(Main)) ~>
           (cycle[Main] = n /\ AwaitingCycle(Main))
    /\ \A n \in 0..(MaxCycles - 2) :
         (cycle[Main] = n /\ AwaitingCycle(Main)) ~>
           (cycle[Main] = n + 1 /\ RunningCycle(Main))
    /\ <>(\A t \in TaskNames : invoked[Main][t] = MaxCycles)

\* Every Task has been invoked in every Cycle the model allows, the last of
\* which ended with rejections only.
EachTaskInvokedAgainWitness ==
  /\ NoTaskHangs
  /\ AwaitingCycle(Main)
  /\ \A t \in TaskNames : invoked[Main][t] = MaxCycles
  /\ \A k \in Slots : reason[Main][k] = "reject"

\* The unsettled invocations of Task t that loop c has launched.
InFlight(c, t) ==
  { k \in Slots : TaskSet[k] = t /\ promise[c][k] = "pending" }

\* C14 - One call of startMainLoop has at most one invocation of each Task
\* in flight: a Task is called only when the promise of its previous
\* invocation by the loop is not pending, so no unsettled invocation is
\* ever lost from view; and during the pacing delay none is in flight.
OneInFlight ==
  /\ [](\A c \in Calls :
          /\ \A t \in TaskNames : Cardinality(InFlight(c, t)) <= 1
          /\ AwaitingCycle(c) =>
               \A t \in TaskNames : InFlight(c, t) = {})
  /\ [][ \A c \in Calls : \A k \in Slots :
          invoked'[c][DeclaredOrder[k]] # invoked[c][DeclaredOrder[k]] =>
            /\ invoked'[c][DeclaredOrder[k]] = invoked[c][DeclaredOrder[k]] + 1
            /\ promise[c][k] # "pending" ]_vars

\* In its second Cycle the loop has all five Tasks in flight, each invoked
\* twice so far and each with one unsettled invocation.
OneInFlightWitness ==
  /\ cycle[Main] = 1
  /\ pc[Main] = "allSettled"
  /\ \A t \in TaskNames :
       invoked[Main][t] = 2 /\ Cardinality(InFlight(Main, t)) = 1

\* C15 - Invocation counts stay in lockstep: the counts of any two Tasks
\* differ by at most one, a Task declared earlier has been invoked at least
\* as often as one declared later, and wherever the loop is suspended all
\* five counts are equal to the number of Cycles started.
CountsInLockstep ==
  \A c \in Calls :
    /\ \A i, j \in 1..5 :
         LET a == invoked[c][DeclaredOrder[i]]
             b == invoked[c][DeclaredOrder[j]]
         IN /\ a - b <= 1 /\ b - a <= 1
            /\ i < j => a >= b
    /\ (Started(c) /\ pc[c] \in {"allSettled", "sleep"}) =>
         \A t \in TaskNames : invoked[c][t] = cycle[c] + 1

\* Midway through the launches of Cycle 1 the first two Tasks are one
\* invocation ahead of the last three.
CountsInLockstepWitness ==
  /\ cycle[Main] = 1
  /\ pc[Main] = "launch"
  /\ invoked[Main]["watchProcesses"] = 2
  /\ invoked[Main]["watchDownloads"] = 2
  /\ invoked[Main]["watchAchievements"] = 1
  /\ invoked[Main]["getSeedStatus"] = 1
  /\ invoked[Main]["checkForUpdatePeriodically"] = 1

\* Everything one call of startMainLoop keeps: its position, its counters,
\* the promises of its array literal and its timer.
frame(c) ==
  << pc[c], next[c], cycle[c], mainLoop[c], promise[c], reason[c], hung[c],
     invoked[c], launchLog[c], suspensions[c], deadline[c], cycleStart[c],
     lastSettle[c] >>

\* Loop c keeps its own Cycles apart: while it launches a Cycle after its
\* first, none of its invocations of the Cycle before is pending, and the
\* first launch comes a pacing delay after the last of them settled.
OwnCyclesApart(c) ==
  (pc[c] = "launch" /\ cycle[c] >= 1) =>
    /\ \A k \in Slots \ Launched(c) : promise[c][k] # "pending"
    /\ next[c] = 1 => now >= lastSettle[c] + PacingDelay

\* The invocations of Task t that are unsettled, over all loops.
Unsettled(t) ==
  { << c, k >> \in Calls \X Slots : k \in InFlight(c, t) }

\* C16 - startMainLoop has no re-entrancy guard and shares no state between
\* calls: a call that has not been made can be made whenever the thread is
\* free, whatever the other loop is doing; a step changes the frame of one
\* loop only; each loop keeps its own Cycles from overlapping and has at
\* most one invocation of a Task in flight, so two loops have at most two.
ReentrantLoops ==
  /\ [](\A c \in Calls :
          /\ (pc[c] = "idle" /\ ~ Busy) => ENABLED StartMainLoop(c)
          /\ OwnCyclesApart(c)
          /\ \A t \in TaskNames : Cardinality(InFlight(c, t)) <= 1)
  /\ [](\A t \in TaskNames :
          Cardinality(Unsettled(t)) <= Cardinality({ c \in Calls : Started(c) }))
  /\ [][ \A c, d \in Calls :
          (c # d /\ frame(c)' # frame(c)) => frame(d)' = frame(d) ]_vars

\* The Cycles of the two loops interleave: the second loop entered its
\* first Cycle while the first loop slept, that Cycle is still running
\* when the first loop is in its second Cycle, and watchProcesses has two
\* unsettled invocations at once, one from each loop.
ReentrantLoopsWitness ==
  /\ cycle[Main] = 1 /\ pc[Main] = "allSettled"
  /\ cycle[Second] = 0 /\ pc[Second] = "allSettled"
  /\ 0 < cycleStart[Second] /\ cycleStart[Second] < cycleStart[Main]
  /\ Cardinality(Unsettled("watchProcesses")) = 2
====
